---- MODULE Spec2Model ----
(***************************************************************************)
(* A model of the ansimage crate: convert_image (src/src/lib.rs) and the   *)
(* block-to-glyph engine of src/src/processing.rs.                         *)
(*                                                                         *)
(* Numbers.  The crate computes in f32.  Here an L*u*v* coordinate is an   *)
(* integer count of 1/LuvScale units and every f32 operation (division,    *)
(* square root, multiply-add) is the exact operation rounded to the        *)
(* nearest such unit.  A brightness is an integer count of 1/BrightScale.  *)
(*                                                                         *)
(* Text.  A String is a sequence of characters; a character is a one-      *)
(* letter TLA+ string, except "ESC" (U+001B), "LF" (U+000A) and the block  *)
(* glyphs, which are written "U+2588" and so on.                           *)
(***************************************************************************)
EXTENDS Integers, Naturals, Sequences, FiniteSets, TLC

VARIABLES
    pc,        \* where convert_image (or the modelled call) stands
    settings,  \* the Settings the caller passed, read-only
    src_dims,  \* <<img_w, img_h>> of the DynamicImage handed to convert_image
    dims,      \* <<w, h>>: the character grid calculate_dimensions returned
    img,       \* the RgbImage process_row reads (processed_img)
    rows,      \* lib.rs:161 rows: one String slot per output row
    task,      \* per row y: the process_row call that is filling slot y
    result,    \* what convert_image returned
    call,      \* the arguments of a direct call of a pure function
    ret        \* what that call returned

vars == <<pc, settings, src_dims, dims, img, rows, task, result, call, ret>>

(***************************************************************************)
(* Bounds of the model.                                                    *)
(***************************************************************************)
MaxW == 2
MaxH == 2
MaxRowW == 2
MaxPalette == 3
MaxRamp == 4

(***************************************************************************)
(* Numeric representation.                                                 *)
(***************************************************************************)
LuvScale == 4
BrightScale == 1000
SrgbScale == 1000

\* F(v), with v evaluated once.  TLC passes the arguments of an operator, and
\* the names of a LET, unevaluated; a bound variable holds a value.
Let(v, F(_)) == CHOOSE r \in {F(x) : x \in {v}} : TRUE

\* The sequence s with every element evaluated.
Seq1(s) == SubSeq(s, 1, Len(s))

Min(a, b) == IF a < b THEN a ELSE b
Max(a, b) == IF a > b THEN a ELSE b

\* n / d rounded to the nearest integer, halves away from zero (d > 0):
\* f32 division followed by f32::round, and the rounding of one f32 operation.
RoundDiv(n, d) ==
    IF n >= 0 THEN (2 * n + d) \div (2 * d) ELSE -((2 * (-n) + d) \div (2 * d))

RECURSIVE SqrtSearch(_, _, _)
SqrtSearch(n, lo, hi) ==
    IF lo >= hi THEN lo
    ELSE LET mid == (lo + hi + 1) \div 2
         IN  IF mid * mid <= n THEN SqrtSearch(n, mid, hi)
             ELSE SqrtSearch(n, lo, mid - 1)

\* f32::sqrt: the square root rounded to the nearest unit.
Sqrt(n) ==
    Let(SqrtSearch(n, 0, 2047), LAMBDA s : IF n - s * s > s THEN s + 1 ELSE s)

\* Rust's float-to-usize cast saturates: a negative value becomes 0.
AsUsize(x) == IF x < 0 THEN 0 ELSE x

None == << >>
Some(x) == << x >>
IsSome(o) == Len(o) = 1
Unwrap(o) == o[1]

(***************************************************************************)
(* Colours.  The pixel values the model draws from, with their CIE L*u*v*  *)
(* (D65) coordinates in 1/LuvScale units.                                  *)
(***************************************************************************)
BLACK_RGB == <<0, 0, 0>>
WHITE_RGB == <<255, 255, 255>>
GREY_RGB == <<140, 140, 140>>
RED_RGB == <<160, 20, 40>>

Colors == {BLACK_RGB, WHITE_RGB, GREY_RGB, RED_RGB}

Luv(l, u, v) == [l |-> l, u |-> u, v |-> v]

BLACK_LUV == Luv(0, 0, 0)

\* Srgb<f32> -> Luv<D65, f32> (palette crate's from_color_unclamped) on Colors.
SrgbToLuv(p) ==
    CASE p = BLACK_RGB -> Luv(0, 0, 0)
      [] p = WHITE_RGB -> Luv(400, 0, 0)
      [] p = GREY_RGB -> Luv(233, 0, 0)
      [] p = RED_RGB -> Luv(137, 389, 62)

\* Luv<D65, f32> -> Srgb<f32> (from_color_unclamped), as <<<<l, u, v>>,
\* <<red, green, blue>>>> with each channel times 255 in 1/SrgbScale units,
\* for every L*u*v* value an average of up to four colours of Colors has.
LuvToSrgbTable ==
   { <<<<0, 0, 0>>, <<0, 0, 0>>>>,
     <<<<34, 97, 16>>, <<56919, 2663, 7571>>>>,
     <<<<46, 130, 21>>, <<67748, 4015, 11321>>>>,
     <<<<58, 0, 0>>, <<36627, 36627, 36627>>>>,
     <<<<69, 195, 31>>, <<89689, 6961, 18438>>>>,
     <<<<78, 0, 0>>, <<47211, 47211, 47211>>>>,
     <<<<91, 259, 41>>, <<111838, 10222, 25087>>>>,
     <<<<93, 97, 16>>, <<83772, 43987, 46182>>>>,
     <<<<100, 0, 0>>, <<59291, 59291, 59291>>>>,
     <<<<103, 292, 47>>, <<123919, 13271, 28639>>>>,
     <<<<117, 0, 0>>, <<68911, 68911, 68911>>>>,
     <<<<123, 130, 21>>, <<108049, 57922, 60883>>>>,
     <<<<127, 195, 31>>, <<123343, 51837, 57067>>>>,
     <<<<133, 0, 0>>, <<78174, 78174, 78174>>>>,
     <<<<134, 97, 16>>, <<107021, 68503, 70403>>>>,
     <<<<137, 389, 62>>, <<159997, 19990, 40006>>>>,
     <<<<151, 97, 16>>, <<117185, 78808, 80647>>>>,
     <<<<155, 0, 0>>, <<91220, 91220, 91220>>>>,
     <<<<158, 0, 0>>, <<93025, 93025, 93025>>>>,
     <<<<161, 292, 47>>, <<162187, 60426, 68422>>>>,
     <<<<169, 195, 31>>, <<150006, 78692, 83249>>>>,
     <<<<169, 259, 41>>, <<162009, 70465, 77230>>>>,
     <<<<175, 0, 0>>, <<103368, 103368, 103368>>>>,
     <<<<179, 130, 21>>, <<142447, 92512, 95140>>>>,
     <<<<185, 195, 31>>, <<160495, 88919, 93336>>>>,
     <<<<193, 97, 16>>, <<143288, 104849, 106601>>>>,
     <<<<200, 0, 0>>, <<118913, 118913, 118913>>>>,
     <<<<201, 130, 21>>, <<156600, 106423, 108991>>>>,
     <<<<203, 292, 47>>, <<191268, 88731, 95728>>>>,
     <<<<209, 97, 16>>, <<153554, 115002, 116733>>>>,
     <<<<211, 0, 0>>, <<125873, 125873, 125873>>>>,
     <<<<217, 0, 0>>, <<129699, 129699, 129699>>>>,
     <<<<225, 259, 41>>, <<200572, 107401, 113417>>>>,
     <<<<227, 195, 31>>, <<188746, 116107, 120298>>>>,
     <<<<233, 0, 0>>, <<140000, 140000, 140000>>>>,
     <<<<234, 97, 16>>, <<169907, 131121, 132831>>>>,
     <<<<251, 97, 16>>, <<181229, 142258, 143958>>>>,
     <<<<257, 130, 21>>, <<193918, 142836, 145320>>>>,
     <<<<258, 0, 0>>, <<156373, 156373, 156373>>>>,
     <<<<267, 0, 0>>, <<162347, 162347, 162347>>>>,
     <<<<269, 195, 31>>, <<217904, 143950, 148022>>>>,
     <<<<275, 0, 0>>, <<167692, 167692, 167692>>>>,
     <<<<289, 0, 0>>, <<177120, 177120, 177120>>>>,
     <<<<293, 97, 16>>, <<209847, 170361, 172047>>>>,
     <<<<300, 0, 0>>, <<184595, 184595, 184595>>>>,
     <<<<312, 130, 21>>, <<232125, 179987, 182440>>>>,
     <<<<317, 0, 0>>, <<196257, 196257, 196257>>>>,
     <<<<334, 97, 16>>, <<238592, 198563, 200246>>>>,
     <<<<344, 0, 0>>, <<215046, 215046, 215046>>>>,
     <<<<358, 0, 0>>, <<224913, 224913, 224913>>>>,
     <<<<400, 0, 0>>, <<255000, 255000, 255000>>>> }

LuvToSrgb(c) ==
    (CHOOSE e \in LuvToSrgbTable : e[1] = <<c.l, c.u, c.v>>)[2]

pixel_to_luv(p) == SrgbToLuv(p)

Channel(x) == Min(Max(RoundDiv(x, SrgbScale), 0), 255)

luv_to_rgb(luv) ==
    Let(LuvToSrgb(luv), LAMBDA srgb :
        <<Channel(srgb[1]), Channel(srgb[2]), Channel(srgb[3])>>)

(***************************************************************************)
(* Character sets (src/src/sets.rs) and the block glyphs.                  *)
(***************************************************************************)
ASCII_CHARS_ALL ==
   << " ", "`", ".", "-", "'", ":", "_", ",", "^", "=", ";", ">", "<", "+", "!", "r", "c", "*", "/", "z", "?", "s", "L", "T", "v", ")", "J", "7", "(", "|", "F", "i", "{", "C", "}", "f", "I", "3", "1", "t", "l", "u", "[", "n", "e", "o", "Z", "5", "Y", "x", "j", "y", "a", "]", "2", "E", "S", "w", "q", "k", "P", "6", "h", "9", "d", "4", "V", "p", "O", "G", "b", "U", "A", "K", "X", "H", "m", "8", "R", "D", "#", "$", "B", "g", "0", "M", "N", "W", "Q", "%", "&", "@" >>

ASCII_CHARS_NO_SPACE ==
   << "`", ".", "-", "'", ":", "_", ",", "^", "=", ";", ">", "<", "+", "!", "r", "c", "*", "/", "z", "?", "s", "L", "T", "v", ")", "J", "7", "(", "|", "F", "i", "{", "C", "}", "f", "I", "3", "1", "t", "l", "u", "[", "n", "e", "o", "Z", "5", "Y", "x", "j", "y", "a", "]", "2", "E", "S", "w", "q", "k", "P", "6", "h", "9", "d", "4", "V", "p", "O", "G", "b", "U", "A", "K", "X", "H", "m", "8", "R", "D", "#", "$", "B", "g", "0", "M", "N", "W", "Q", "%", "&", "@" >>

ASCII_CHARS_AZ ==
   << "r", "c", "z", "s", "L", "T", "v", "J", "F", "i", "C", "f", "I", "t", "l", "u", "n", "e", "o", "Z", "Y", "x", "j", "y", "a", "E", "S", "w", "q", "k", "P", "h", "d", "V", "p", "O", "G", "b", "U", "A", "K", "X", "H", "m", "R", "D", "B", "g", "M", "N", "W", "Q" >>

ASCII_CHARS_NUM ==
   << "7", "3", "1", "5", "2", "6", "9", "4", "8", "0" >>

ASCII_CHARS_SPEC ==
   << "`", ".", "-", "'", ":", "_", ",", "^", "=", ";", ">", "<", "+", "!", "*", "/", "?", ")", "(", "|", "{", "}", "[", "]", "#", "$", "%", "&", "@" >>

FULL_BLOCK == "U+2588"
UPPER_HALF == "U+2580"
RIGHT_HALF == "U+2590"
DIAGONAL == "U+259E"
LOWER_LEFT == "U+2596"
UPPER_LEFT == "U+2598"
UPPER_RIGHT == "U+259D"
LOWER_RIGHT == "U+2597"
LIGHT_SHADE == "U+2591"
MEDIUM_SHADE == "U+2592"
DARK_SHADE == "U+2593"
SPACE == " "

as_slice(cs) ==
    CASE cs = "All" -> ASCII_CHARS_ALL
      [] cs = "NoSpace" -> ASCII_CHARS_NO_SPACE
      [] cs = "Az" -> ASCII_CHARS_AZ
      [] cs = "Nums" -> ASCII_CHARS_NUM
      [] cs = "Spec" -> ASCII_CHARS_SPEC

(***************************************************************************)
(* src/src/processing.rs: colour arithmetic.                               *)
(***************************************************************************)
F32_MAX == 1073741823

luv_distance(c1, c2) ==
    Let(<<c1.l - c2.l, c1.u - c2.u, c1.v - c2.v>>, LAMBDA d :
        LET dl == d[1]
            du == d[2]
            dv == d[3]
        IN  Let(dv * dv + (dl * dl + du * du), LAMBDA sq : Sqrt(sq)))

\* ratio is given in hundredths: 25, 50, 75.
blend(a, b, ratio) ==
    Luv(RoundDiv(a.l * ratio + b.l * (100 - ratio), 100),
        RoundDiv(a.u * ratio + b.u * (100 - ratio), 100),
        RoundDiv(a.v * ratio + b.v * (100 - ratio), 100))

RECURSIVE fold_sum(_, _)
fold_sum(colors, n) ==
    IF n = 0 THEN <<0, 0, 0>>
    ELSE Let(fold_sum(colors, n - 1), LAMBDA acc :
             LET c == colors[n]
             IN  <<acc[1] + c.l, acc[2] + c.u, acc[3] + c.v>>)

average_color(colors) ==
    Let(Len(colors), LAMBDA count :
        IF count = 0 THEN BLACK_LUV
        ELSE Let(fold_sum(colors, count), LAMBDA sum :
                 Luv(RoundDiv(sum[1], count), RoundDiv(sum[2], count),
                     RoundDiv(sum[3], count))))

RECURSIVE lightest_darkest_loop(_, _, _, _)
lightest_darkest_loop(colors, i, lightest, darkest) ==
    IF i > Len(colors) THEN <<lightest, darkest>>
    ELSE LET c == colors[i]
         IN  Let(<<IF c.l > lightest.l THEN c ELSE lightest,
                   IF c.l < darkest.l THEN c ELSE darkest>>, LAMBDA ld :
                 lightest_darkest_loop(colors, i + 1, ld[1], ld[2]))

\* Mutant of find_lightest_darkest: the pair the other way round.
find_lightest_darkest_swapped(colors) ==
    Let(lightest_darkest_loop(colors, 2, colors[1], colors[1]), LAMBDA ld :
        <<ld[2], ld[1]>>)

\* processing.rs:399-411.
find_lightest_darkest(colors) ==
    lightest_darkest_loop(colors, 2, colors[1], colors[1])

\* Mutant of min_by_scan: the later element is taken whenever the comparison
\* is not Less.
RECURSIVE min_by_scan_later(_, _, _)
min_by_scan_later(keys, i, best) ==
    IF i > Len(keys) THEN best
    ELSE Let(IF keys[best] >= keys[i] THEN i ELSE best, LAMBDA b :
             min_by_scan_later(keys, i + 1, b))

\* Iterator::min_by over a sequence of keys: the position (from 1) of the
\* minimum, the earlier element kept whenever the comparison is not Greater.
RECURSIVE min_by_scan(_, _, _)
min_by_scan(keys, i, best) ==
    IF i > Len(keys) THEN best
    ELSE Let(IF keys[best] > keys[i] THEN i ELSE best, LAMBDA b :
             min_by_scan(keys, i + 1, b))

\* Mutant of min_by: of several minima the last one.
min_by_last_wins(keys) ==
    Let(Seq1(keys), LAMBDA k :
        CHOOSE i \in 1..Len(k) :
            /\ \A j \in 1..Len(k) : k[i] <= k[j]
            /\ \A j \in (i + 1)..Len(k) : k[j] > k[i])

min_by(keys) == Let(Seq1(keys), LAMBDA k : min_by_scan(k, 2, 1))

\* Mutant of find_closest: the palette is scanned from its end, so that of
\* several nearest entries the last one is returned.
find_closest_from_end(color, palette) ==
    IF Len(palette) = 0 THEN color
    ELSE LET n == Len(palette)
         IN  palette[n + 1 - min_by([i \in 1..n |->
                                       luv_distance(color, palette[n + 1 - i])])]

\* processing.rs:414-424.
find_closest(color, palette) ==
    IF Len(palette) = 0 THEN color
    ELSE palette[min_by([i \in 1..Len(palette) |->
                            luv_distance(color, palette[i])])]

\* processing.rs:450-459: the scan for color1.  i and idx1 count from 0.
RECURSIVE closest1_loop(_, _, _, _)
closest1_loop(color1, palette, i, st) ==
    IF i >= Len(palette) THEN st
    ELSE LET p_color == palette[i + 1]
         IN  Let(luv_distance(color1, p_color), LAMBDA dist :
                 Let(IF dist < st.min_dist1
                     THEN [closest1 |-> p_color, min_dist1 |-> dist, idx1 |-> i]
                     ELSE st,
                     LAMBDA next : closest1_loop(color1, palette, i + 1, next)))

\* Mutant of closest2_loop: slot idx1 is not skipped.
RECURSIVE closest2_loop_no_skip(_, _, _, _, _)
closest2_loop_no_skip(color2, palette, idx1, i, st) ==
    IF i >= Len(palette) THEN st
    ELSE LET p_color == palette[i + 1]
         IN  Let(luv_distance(color2, p_color), LAMBDA dist :
                 Let(IF dist < st.min_dist2
                     THEN [closest2 |-> p_color, min_dist2 |-> dist, slot2 |-> i]
                     ELSE st,
                     LAMBDA next :
                         closest2_loop_no_skip(color2, palette, idx1, i + 1, next)))

\* processing.rs:461-473: the scan for color2, which skips slot idx1.  slot2
\* records the slot closest2 was read from; the code does not keep it.
RECURSIVE closest2_loop(_, _, _, _, _)
closest2_loop(color2, palette, idx1, i, st) ==
    IF i >= Len(palette) THEN st
    ELSE IF i = idx1 THEN closest2_loop(color2, palette, idx1, i + 1, st)
    ELSE LET p_color == palette[i + 1]
         IN  Let(luv_distance(color2, p_color), LAMBDA dist :
                 Let(IF dist < st.min_dist2
                     THEN [closest2 |-> p_color, min_dist2 |-> dist, slot2 |-> i]
                     ELSE st,
                     LAMBDA next : closest2_loop(color2, palette, idx1, i + 1, next)))

\* The two distinct-slot scans of find_closest_pair, before the reordering.
distinct_scan(color1, color2, palette) ==
    Let(closest1_loop(color1, palette, 0,
            [closest1 |-> palette[1], min_dist1 |-> F32_MAX, idx1 |-> 0]),
        LAMBDA s1 :
        LET first2 == IF s1.idx1 = 0 THEN 1 ELSE 0
        IN  Let(closest2_loop(color2, palette, s1.idx1, 0,
                    [closest2 |-> palette[first2 + 1], min_dist2 |-> F32_MAX,
                     slot2 |-> first2]),
                LAMBDA s2 :
                [closest1 |-> s1.closest1, idx1 |-> s1.idx1,
                 closest2 |-> s2.closest2, slot2 |-> s2.slot2]))

\* Mutant of order_pair: the comparison the other way round.
order_pair_reversed(closest1, closest2) ==
    IF luv_distance(closest1, BLACK_LUV) > luv_distance(closest2, BLACK_LUV)
    THEN <<closest2, closest1>>
    ELSE <<closest1, closest2>>

\* The final reordering: <<foreground, background>>.
order_pair(closest1, closest2) ==
    IF luv_distance(closest1, BLACK_LUV) < luv_distance(closest2, BLACK_LUV)
    THEN <<closest2, closest1>>
    ELSE <<closest1, closest2>>

find_closest_pair(color1, color2, palette, order_by_brightness) ==
    IF Len(palette) = 0 THEN <<BLACK_LUV, BLACK_LUV>>
    ELSE IF Len(palette) = 1 THEN <<palette[1], palette[1]>>
    ELSE IF ~order_by_brightness
         THEN <<find_closest(color1, palette), find_closest(color2, palette)>>
    ELSE Let(distinct_scan(color1, color2, palette), LAMBDA s :
             order_pair(s.closest1, s.closest2))

\* Mutant of brightness_to_char_index: the brightness scaled by the length
\* of the set, and no final min.
brightness_to_char_index_by_len(brightness, char_set_len) ==
    AsUsize(RoundDiv(brightness * char_set_len, BrightScale))

\* Mutant of brightness_to_char_index: without the final min.
brightness_to_char_index_no_min(brightness, char_set_len) ==
    AsUsize(RoundDiv(brightness * (char_set_len - 1), BrightScale))

\* brightness is in 1/BrightScale units; char_set_len >= 1.
brightness_to_char_index(brightness, char_set_len) ==
    LET len_f == char_set_len - 1
    IN  Let(AsUsize(RoundDiv(brightness * len_f, BrightScale)), LAMBDA index :
            Min(index, char_set_len - 1))

\* processing.rs:335-363: the colour a glyph shows in each of the four places.
template(fg, bg, character) ==
    CASE character = UPPER_HALF -> <<fg, fg, bg, bg>>
      [] character = RIGHT_HALF -> <<bg, fg, bg, fg>>
      [] character = DIAGONAL -> <<bg, fg, fg, bg>>
      [] character = LOWER_LEFT -> <<bg, bg, fg, bg>>
      [] character = UPPER_LEFT -> <<fg, bg, bg, bg>>
      [] character = UPPER_RIGHT -> <<bg, fg, bg, bg>>
      [] character = LOWER_RIGHT -> <<bg, bg, bg, fg>>
      [] character = FULL_BLOCK -> <<fg, fg, fg, fg>>
      [] character = LIGHT_SHADE ->
           <<blend(fg, bg, 25), blend(fg, bg, 25), blend(fg, bg, 25),
             blend(fg, bg, 25)>>
      [] character = MEDIUM_SHADE ->
           <<blend(fg, bg, 50), blend(fg, bg, 50), blend(fg, bg, 50),
             blend(fg, bg, 50)>>
      [] character = DARK_SHADE ->
           <<blend(fg, bg, 75), blend(fg, bg, 75), blend(fg, bg, 75),
             blend(fg, bg, 75)>>
      [] OTHER -> <<bg, bg, bg, bg>>

calculate_block_distance(original, fg, bg, character) ==
    Let(template(fg, bg, character), LAMBDA t :
        Let(<<luv_distance(original[1], t[1]), luv_distance(original[2], t[2]),
              luv_distance(original[3], t[3]), luv_distance(original[4], t[4])>>,
            LAMBDA d :
            LET d1 == d[1]
                d2 == d[2]
                d3 == d[3]
                d4 == d[4]
            IN  d4 * d4 + (d3 * d3 + (d1 * d1 + d2 * d2))))

(***************************************************************************)
(* src/src/processing.rs: the block selector.  A decision is the tuple     *)
(* (char, Option<RGB8>, Option<RGB8>); ok = FALSE stands for a panic.      *)
(***************************************************************************)
Decision(ch, fg, bg) == [ok |-> TRUE, ch |-> ch, fg |-> fg, bg |-> bg]

Panicked == [ok |-> FALSE, ch |-> "", fg |-> None, bg |-> None]

\* Mutant of process_ascii: OneColor decisions carry a black background.
process_ascii_one_color_background(colors, char_set, color_mode, palette) ==
    IF Len(char_set) = 0 THEN Panicked
    ELSE IF color_mode = "TwoColor"
    THEN Let(find_lightest_darkest(colors), LAMBDA ld :
         LET lightest == ld[1]
             darkest == ld[2]
         IN  Let(<<IF IsSome(palette)
                   THEN find_closest_pair(lightest, darkest, Unwrap(palette), TRUE)
                   ELSE <<lightest, darkest>>,
                   luv_distance(lightest, darkest),
                   luv_distance(average_color(colors), darkest)>>, LAMBDA v :
             LET fg_luv == v[1][1]
                 bg_luv == v[1][2]
                 total_dist == v[2]
                 avg_dist == v[3]
                 \* total_dist < 1e-5: below the smallest positive distance.
                 brightness == IF total_dist < 1 THEN 0
                               ELSE Min(RoundDiv(avg_dist * BrightScale, total_dist),
                                        BrightScale)
                 index == brightness_to_char_index(brightness, Len(char_set))
             IN  IF index >= Len(char_set) THEN Panicked
                 ELSE Decision(char_set[index + 1], Some(luv_to_rgb(fg_luv)),
                               Some(luv_to_rgb(bg_luv)))))
    ELSE Let(average_color(colors), LAMBDA avg_color :
         Let(IF IsSome(palette) THEN find_closest(avg_color, Unwrap(palette))
             ELSE avg_color, LAMBDA fg_luv :
             LET brightness == BrightScale -
                     Min(RoundDiv(luv_distance(fg_luv, BLACK_LUV) * BrightScale,
                                  100 * LuvScale),
                         BrightScale)
                 index == brightness_to_char_index(brightness, Len(char_set))
             IN  IF index >= Len(char_set) THEN Panicked
                 ELSE Decision(char_set[index + 1], Some(luv_to_rgb(fg_luv)),
                               Some(luv_to_rgb(BLACK_LUV)))))

\* char_set[index] panics when index is not below char_set.len(); for an
\* empty char_set, char_set_len - 1 underflows before it.
process_ascii(colors, char_set, color_mode, palette) ==
    IF Len(char_set) = 0 THEN Panicked
    ELSE IF color_mode = "TwoColor"
    THEN Let(find_lightest_darkest(colors), LAMBDA ld :
         LET lightest == ld[1]
             darkest == ld[2]
         IN  Let(<<IF IsSome(palette)
                   THEN find_closest_pair(lightest, darkest, Unwrap(palette), TRUE)
                   ELSE <<lightest, darkest>>,
                   luv_distance(lightest, darkest),
                   luv_distance(average_color(colors), darkest)>>, LAMBDA v :
             LET fg_luv == v[1][1]
                 bg_luv == v[1][2]
                 total_dist == v[2]
                 avg_dist == v[3]
                 \* total_dist < 1e-5: below the smallest positive distance.
                 brightness == IF total_dist < 1 THEN 0
                               ELSE Min(RoundDiv(avg_dist * BrightScale, total_dist),
                                        BrightScale)
                 index == brightness_to_char_index(brightness, Len(char_set))
             IN  IF index >= Len(char_set) THEN Panicked
                 ELSE Decision(char_set[index + 1], Some(luv_to_rgb(fg_luv)),
                               Some(luv_to_rgb(bg_luv)))))
    ELSE Let(average_color(colors), LAMBDA avg_color :
         Let(IF IsSome(palette) THEN find_closest(avg_color, Unwrap(palette))
             ELSE avg_color, LAMBDA fg_luv :
             LET brightness == BrightScale -
                     Min(RoundDiv(luv_distance(fg_luv, BLACK_LUV) * BrightScale,
                                  100 * LuvScale),
                         BrightScale)
                 index == brightness_to_char_index(brightness, Len(char_set))
             IN  IF index >= Len(char_set) THEN Panicked
                 ELSE Decision(char_set[index + 1], Some(luv_to_rgb(fg_luv)), None)))

Candidate(ch, fg, bg) == [ch |-> ch, fg |-> fg, bg |-> bg]

\* processing.rs:230-282: the candidate glyphs with their ideal colours.
candidates(colors, charset) ==
    CASE charset = "Full" ->
           <<Candidate(FULL_BLOCK, average_color(colors), BLACK_LUV)>>
      [] charset = "Half" ->
           <<Candidate(UPPER_HALF, average_color(SubSeq(colors, 1, 2)),
                       average_color(SubSeq(colors, 3, 4)))>>
      [] charset = "Quarter" ->
           <<Candidate(UPPER_HALF, average_color(SubSeq(colors, 1, 2)),
                       average_color(SubSeq(colors, 3, 4))),
             Candidate(RIGHT_HALF, average_color(<<colors[2], colors[4]>>),
                       average_color(<<colors[1], colors[3]>>)),
             Candidate(DIAGONAL, average_color(<<colors[2], colors[3]>>),
                       average_color(<<colors[1], colors[4]>>)),
             Candidate(LOWER_LEFT, colors[3],
                       average_color(<<colors[1], colors[2], colors[4]>>)),
             Candidate(UPPER_LEFT, colors[1],
                       average_color(<<colors[2], colors[3], colors[4]>>)),
             Candidate(UPPER_RIGHT, colors[2],
                       average_color(<<colors[1], colors[3], colors[4]>>)),
             Candidate(LOWER_RIGHT, colors[4],
                       average_color(<<colors[1], colors[2], colors[3]>>))>>
      [] charset = "Shade" ->
           <<Candidate(SPACE, BLACK_LUV, BLACK_LUV),
             Candidate(LIGHT_SHADE, average_color(colors), BLACK_LUV),
             Candidate(MEDIUM_SHADE, average_color(colors), BLACK_LUV),
             Candidate(DARK_SHADE, average_color(colors), BLACK_LUV)>>

\* Mutant of score: the candidate scored in its ideal colours, palette or not.
score_ideal(colors, cand, palette) ==
    [dist |-> calculate_block_distance(colors, cand.fg, cand.bg, cand.ch),
     ch |-> cand.ch, fg |-> cand.fg, bg |-> cand.bg]

\* processing.rs:287-293: a candidate snapped to the palette and scored.
score(colors, cand, palette) ==
    Let(IF IsSome(palette)
        THEN find_closest_pair(cand.fg, cand.bg, Unwrap(palette), FALSE)
        ELSE <<cand.fg, cand.bg>>, LAMBDA pair :
        [dist |-> calculate_block_distance(colors, pair[1], pair[2], cand.ch),
         ch |-> cand.ch, fg |-> pair[1], bg |-> pair[2]])

\* Mutant of process_unicode: no fast path, the Full set scored through its
\* candidate like the other sets.
process_unicode_full_scored(colors, charset, color_mode, palette) ==
    Let(candidates(colors, charset), LAMBDA cands :
    Let(Seq1([i \in 1..Len(cands) |-> score(colors, cands[i], palette)]),
        LAMBDA scored :
    Let(scored[min_by([i \in 1..Len(scored) |-> scored[i].dist])],
        LAMBDA best :
        Decision(best.ch, Some(luv_to_rgb(best.fg)),
                 IF color_mode = "TwoColor" THEN Some(luv_to_rgb(best.bg))
                 ELSE None))))

\* processing.rs:215-305.
process_unicode(colors, charset, color_mode, palette) ==
    IF charset = "Full"
    THEN Let(average_color(colors), LAMBDA avg_color :
         LET final_color == IF IsSome(palette)
                            THEN find_closest(avg_color, Unwrap(palette))
                            ELSE avg_color
         IN  Decision(FULL_BLOCK, Some(luv_to_rgb(final_color)), None))
    ELSE Let(candidates(colors, charset), LAMBDA cands :
         Let(Seq1([i \in 1..Len(cands) |-> score(colors, cands[i], palette)]),
             LAMBDA scored :
         Let(IF Len(scored) = 0
             THEN [ch |-> SPACE, fg |-> BLACK_LUV, bg |-> BLACK_LUV]
             ELSE scored[min_by([i \in 1..Len(scored) |-> scored[i].dist])],
             LAMBDA best :
             Decision(best.ch, Some(luv_to_rgb(best.fg)),
                      IF color_mode = "TwoColor" THEN Some(luv_to_rgb(best.bg))
                      ELSE None))))

(***************************************************************************)
(* src/src/processing.rs: process_row.                                     *)
(***************************************************************************)
ESC == "ESC"
LF == "LF"

Digit(d) == <<"0", "1", "2", "3", "4", "5", "6", "7", "8", "9">>[d + 1]

\* Display of a u8: decimal, no padding.
FmtU8(n) ==
    IF n < 10 THEN <<Digit(n)>>
    ELSE IF n < 100 THEN <<Digit(n \div 10), Digit(n % 10)>>
    ELSE <<Digit(n \div 100), Digit((n \div 10) % 10), Digit(n % 10)>>

FgSet(c) ==
    <<ESC, "[", "3", "8", ";", "2", ";">> \o FmtU8(c[1]) \o <<";">>
        \o FmtU8(c[2]) \o <<";">> \o FmtU8(c[3]) \o <<"m">>

\* Mutant of BgSet: the background written with the foreground's selector.
BgSet_as_foreground(c) ==
    <<ESC, "[", "3", "8", ";", "2", ";">> \o FmtU8(c[1]) \o <<";">>
        \o FmtU8(c[2]) \o <<";">> \o FmtU8(c[3]) \o <<"m">>

BgSet(c) ==
    <<ESC, "[", "4", "8", ";", "2", ";">> \o FmtU8(c[1]) \o <<";">>
        \o FmtU8(c[2]) \o <<";">> \o FmtU8(c[3]) \o <<"m">>

FG_RESET == <<ESC, "[", "3", "9", "m">>
BG_RESET == <<ESC, "[", "4", "9", "m">>
FULL_RESET == <<ESC, "[", "0", "m">>

\* RgbImage::get_pixel panics outside the buffer.
InBounds(image, x, y) == x < image.width /\ y < image.height

get_pixel(image, x, y) == image.data[y + 1][x + 1]

\* processing.rs:71-83.
paletted_colors(s) ==
    IF s.colors.is_truecolor THEN None
    ELSE Some([i \in 1..Len(s.colors.palette) |-> SrgbToLuv(s.colors.palette[i])])

\* processing.rs:102-122 for one block.
decide(colors, s) ==
    IF s.characters.mode.kind = "Unicode"
    THEN process_unicode(colors, s.characters.mode.name, s.characters.color_mode,
                         paletted_colors(s))
    ELSE process_ascii(colors, s.characters.mode.chars, s.characters.color_mode,
                       paletted_colors(s))

\* Mutants of write_code: the flag ignored, one way and the other.
write_code_always(new, last, compression) == TRUE

write_code_on_change(new, last, compression) == new # last

\* Mutant of write_code: with compression a channel is written once, while
\* the row has not set it yet.
write_code_first_only(new, last, compression) == last = None \/ ~compression

\* processing.rs:126-128.
write_code(new, last, compression) == new # last \/ ~compression

\* Mutant of push_column: a column that writes no escape is skipped whole.
push_column_skip(row_str, fg_code, bg_code, character) ==
    IF fg_code = << >> /\ bg_code = << >> THEN row_str
    ELSE row_str \o fg_code \o bg_code \o <<character>>

\* processing.rs:131-153: what one column appends to row_str.
push_column(row_str, fg_code, bg_code, character) ==
    row_str \o fg_code \o bg_code \o <<character>>

\* The state of one process_row call at entry: processing.rs:67-87.
RowStart(width_char) ==
    [x_char |-> 0, width_char |-> width_char, row_str |-> << >>,
     last_fg |-> None, last_bg |-> None, status |-> "running"]

\* One iteration of the loop at processing.rs:89-154.
RowColumn(rs, y_char, image, s) ==
    LET x_px == rs.x_char * 2
        y_px == y_char * 2
    IN  IF ~(InBounds(image, x_px, y_px) /\ InBounds(image, x_px + 1, y_px)
             /\ InBounds(image, x_px, y_px + 1)
             /\ InBounds(image, x_px + 1, y_px + 1))
        THEN [rs EXCEPT !.status = "panicked"]
        ELSE Let(<<pixel_to_luv(get_pixel(image, x_px, y_px)),
                   pixel_to_luv(get_pixel(image, x_px + 1, y_px)),
                   pixel_to_luv(get_pixel(image, x_px, y_px + 1)),
                   pixel_to_luv(get_pixel(image, x_px + 1, y_px + 1))>>,
                 LAMBDA colors :
             Let(decide(colors, s), LAMBDA d :
             LET write_fg == write_code(d.fg, rs.last_fg, s.advanced.compression)
                 write_bg == write_code(d.bg, rs.last_bg, s.advanced.compression)
                 fg_code == IF ~write_fg THEN << >>
                            ELSE IF IsSome(d.fg) THEN FgSet(Unwrap(d.fg))
                            ELSE FG_RESET
                 bg_code == IF ~write_bg THEN << >>
                            ELSE IF IsSome(d.bg) THEN BgSet(Unwrap(d.bg))
                            ELSE BG_RESET
             IN  IF ~d.ok THEN [rs EXCEPT !.status = "panicked"]
                 ELSE [rs EXCEPT !.x_char = @ + 1,
                                 !.row_str = push_column(@, fg_code, bg_code, d.ch),
                                 !.last_fg = IF write_fg THEN d.fg ELSE @,
                                 !.last_bg = IF write_bg THEN d.bg ELSE @]))

\* Mutant of RowEnd: the row is returned as the loop left it.
RowEnd_no_reset(rs) == [rs EXCEPT !.status = "returned"]

\* processing.rs:156-158.
RowEnd(rs) ==
    [rs EXCEPT !.row_str = @ \o FULL_RESET, !.status = "returned"]

\* One step of a process_row call.
RowStep(rs, y_char, image, s) ==
    IF rs.x_char < rs.width_char THEN RowColumn(rs, y_char, image, s)
    ELSE RowEnd(rs)

RECURSIVE RowRun(_, _, _, _)
RowRun(rs, y_char, image, s) ==
    IF rs.status # "running" THEN rs
    ELSE Let(RowStep(rs, y_char, image, s), LAMBDA next :
             RowRun(next, y_char, image, s))

\* The whole call: the returned String, or a panic.
process_row(y_char, width_char, image, s) ==
    Let(RowStart(width_char), LAMBDA rs : RowRun(rs, y_char, image, s))

(***************************************************************************)
(* src/src/lib.rs: convert_image.                                          *)
(***************************************************************************)
\* SizeMode::Exact returns the request; Fit keeps the image's aspect ratio.
\* char_ratio is the fraction <<numerator, denominator>>.
calculate_dimensions(img_w, img_h, width, height, mode, char_ratio) ==
    IF mode = "Exact" THEN <<width, height>>
    ELSE LET rn == char_ratio[1]
             rd == char_ratio[2]
             \* fit_height = width * (img_h / img_w) * char_ratio
             fit_height_n == width * img_h * rn
             fit_height_d == img_w * rd
             \* fit_width = (height * (img_w / img_h)) / char_ratio
             fit_width_n == height * img_w * rd
             fit_width_d == img_h * rn
         IN  IF fit_height_n > height * fit_height_d
             THEN <<AsUsize(RoundDiv(fit_width_n, fit_width_d)), height>>
             ELSE <<width, AsUsize(RoundDiv(fit_height_n, fit_height_d))>>

\* The two checks at lib.rs:103-114, in order; "" when the settings pass.
\* Mutant of validate: the check of the Custom list is missing.
validate_palette_only(s) ==
    IF ~s.colors.is_truecolor /\ Len(s.colors.palette) = 0
    THEN "A color palette must be selected when not in truecolor mode."
    ELSE ""

\* lib.rs:103-114: the message of the InvalidSettings error, "" when valid.
validate(s) ==
    IF ~s.colors.is_truecolor /\ Len(s.colors.palette) = 0
    THEN "A color palette must be selected when not in truecolor mode."
    ELSE IF s.characters.mode.kind = "Custom" /\ Len(s.characters.mode.chars) = 0
    THEN "Custom character mode requires at least one character."
    ELSE ""

\* [String]::join with a one-character separator.
RECURSIVE join(_, _)
join(strs, sep) ==
    IF Len(strs) = 0 THEN << >>
    ELSE IF Len(strs) = 1 THEN strs[1]
    ELSE strs[1] \o <<sep>> \o join(Tail(strs), sep)

Ok(v) == [kind |-> "Ok", value |-> v]
Err(kind, msg) == [kind |-> kind, value |-> msg]
Pending == [kind |-> "Pending", value |-> ""]
Panic == [kind |-> "Panic", value |-> ""]

(***************************************************************************)
(* The inputs the model draws from.                                        *)
(***************************************************************************)
Ascii(cs) == [kind |-> "Ascii", name |-> cs, chars |-> as_slice(cs)]
Unicode(cs) == [kind |-> "Unicode", name |-> cs, chars |-> << >>]
Custom(v) == [kind |-> "Custom", name |-> "", chars |-> v]

MkSettings(size, mode, color_mode, is_truecolor, palette, compression) ==
    [size |-> size,
     characters |-> [mode |-> mode, color_mode |-> color_mode,
                     aspect_ratio |-> <<1, 2>>],
     colors |-> [is_truecolor |-> is_truecolor, palette |-> palette],
     advanced |-> [compression |-> compression]]

Size(width, height, mode) == [width |-> width, height |-> height, mode |-> mode]

ColorModes == {"OneColor", "TwoColor"}

\* A 2x2 block: <<top-left, top-right, bottom-left, bottom-right>>.
Flat(c) == <<c, c, c, c>>

Blocks ==
    {Flat(BLACK_RGB), Flat(WHITE_RGB),
     <<WHITE_RGB, WHITE_RGB, BLACK_RGB, BLACK_RGB>>,
     <<WHITE_RGB, GREY_RGB, GREY_RGB, BLACK_RGB>>,
     <<RED_RGB, BLACK_RGB, BLACK_RGB, BLACK_RGB>>}

\* Blocks of rising brightness: no, one, two and three white pixels.
RampBlocks ==
    {Flat(BLACK_RGB),
     <<WHITE_RGB, BLACK_RGB, BLACK_RGB, BLACK_RGB>>,
     <<WHITE_RGB, WHITE_RGB, BLACK_RGB, BLACK_RGB>>,
     <<WHITE_RGB, WHITE_RGB, WHITE_RGB, BLACK_RGB>>}

Range(f) == {f[i] : i \in DOMAIN f}

BlocksOver(cols) == {b \in Blocks : Range(b) \subseteq cols}

\* The image of gw x gh blocks, 2gw x 2gh pixels, row-major.
MkImage(gw, gh, grid) ==
    [width |-> 2 * gw, height |-> 2 * gh,
     data |-> [py \in 1..(2 * gh) |-> [px \in 1..(2 * gw) |->
                  grid[<<(py + 1) \div 2, (px + 1) \div 2>>]
                      [((py - 1) % 2) * 2 + ((px - 1) % 2) + 1]]]]

ImagesOver(blocks, gw, gh) ==
    {MkImage(gw, gh, g) : g \in [(1..gh) \X (1..gw) -> blocks]}

NoImage == [width |-> 0, height |-> 0, data |-> << >>]

Palettes ==
    {<<BLACK_RGB, WHITE_RGB>>, <<WHITE_RGB, WHITE_RGB, BLACK_RGB>>, <<WHITE_RGB>>}

(***************************************************************************)
(* Specification Spec: one call of convert_image, its rows in parallel.    *)
(***************************************************************************)
ConvertModes ==
    {Ascii("Nums"), Unicode("Quarter"), Custom(<<"m", "[">>), Custom(<< >>)}

ConvertSizes ==
    {Size(w, h, "Exact") : w \in 0..MaxW, h \in 0..MaxH}
        \cup {Size(MaxW, MaxH, "Fit")}

\* <<color_mode, is_truecolor, palette, compression>>.
ConvertStyles ==
    {<<"TwoColor", TRUE, << >>, TRUE>>,
     <<"OneColor", FALSE, <<BLACK_RGB, WHITE_RGB>>, TRUE>>,
     <<"TwoColor", FALSE, <<BLACK_RGB, WHITE_RGB>>, FALSE>>,
     <<"OneColor", FALSE, << >>, TRUE>>}

ConvertSettings ==
    {MkSettings(sz, m, st[1], st[2], st[3], st[4]) :
        sz \in ConvertSizes, m \in ConvertModes, st \in ConvertStyles}

\* The buffers of a conversion: the rows of blocks are flat black, but for
\* at most one, which alternates between a white-over-black block and a
\* black block.
ConvertBlock(kind, x) ==
    IF kind = "alternating" /\ x % 2 = 1
    THEN <<WHITE_RGB, WHITE_RGB, BLACK_RGB, BLACK_RGB>>
    ELSE Flat(BLACK_RGB)

ConvertImages(gw, gh) ==
    {MkImage(gw, gh, [c \in (1..gh) \X (1..gw) |-> ConvertBlock(k[c[1]], c[2])]) :
        k \in {[y \in 1..gh |-> IF y = a THEN "alternating" ELSE "flat"] :
                  a \in 0..gh}}

SourceDims == {<<4, 4>>, <<8, 2>>, <<2, 8>>}

Init ==
    /\ pc = "validate"
    /\ settings \in ConvertSettings
    /\ src_dims \in IF settings.size.mode = "Fit" THEN SourceDims ELSE {<<4, 4>>}
    /\ dims = <<0, 0>>
    /\ img = NoImage
    /\ rows = << >>
    /\ task = << >>
    /\ result = Pending
    /\ call = [fn |-> "convert_image"]
    /\ ret = Pending

\* lib.rs:103-114.
Validate ==
    /\ pc = "validate"
    /\ IF validate(settings) # ""
       THEN /\ result' = Err("InvalidSettings", validate(settings))
            /\ pc' = "returned"
       ELSE /\ pc' = "dimensions"
            /\ UNCHANGED result
    /\ UNCHANGED <<settings, src_dims, dims, img, rows, task, call, ret>>

\* lib.rs:118-128.
CalculateDimensions ==
    /\ pc = "dimensions"
    /\ dims' = calculate_dimensions(src_dims[1], src_dims[2], settings.size.width,
                                    settings.size.height, settings.size.mode,
                                    settings.characters.aspect_ratio)
    /\ pc' = "resize"
    /\ UNCHANGED <<settings, src_dims, img, rows, task, result, call, ret>>

\* lib.rs:131-147.  The resizer is an external crate: what it leaves in the
\* 2w x 2h buffer is any image of that size.
Resize ==
    /\ pc = "resize"
    /\ img' \in ConvertImages(dims[1], dims[2])
    /\ pc' = "quantize"
    /\ UNCHANGED <<settings, src_dims, dims, rows, task, result, call, ret>>

\* lib.rs:132, 142: the resizer refuses; possible for an empty target only.
ResizeFails ==
    /\ pc = "resize"
    /\ dims[1] = 0 \/ dims[2] = 0
    /\ result' = Err("Processing", "resize")
    /\ pc' = "returned"
    /\ UNCHANGED <<settings, src_dims, dims, img, rows, task, call, ret>>

\* lib.rs:150-158.  imagequant remaps every pixel to an entry of the fixed
\* palette; which one is its business.
Quantize ==
    /\ pc = "quantize"
    /\ IF settings.colors.is_truecolor
       THEN UNCHANGED img
       ELSE img' \in {i \in ConvertImages(dims[1], dims[2]) :
                          \A y \in 1..i.height : 
                              Range(i.data[y]) \subseteq Range(settings.colors.palette)}
    /\ pc' = "spawn"
    /\ UNCHANGED <<settings, src_dims, dims, rows, task, result, call, ret>>

\* lib.rs:245-263: imagequant refuses; possible for an empty image only.
QuantizeFails ==
    /\ pc = "quantize"
    /\ ~settings.colors.is_truecolor
    /\ dims[1] = 0 \/ dims[2] = 0
    /\ result' = Err("Processing", "imagequant")
    /\ pc' = "returned"
    /\ UNCHANGED <<settings, src_dims, dims, img, rows, task, call, ret>>

\* lib.rs:161-162: the slots, and one task per slot.
SpawnRows ==
    /\ pc = "spawn"
    /\ rows' = [y \in 1..dims[2] |-> << >>]
    /\ task' = [y \in 0..(dims[2] - 1) |-> RowStart(dims[1])]
    /\ pc' = "rows"
    /\ UNCHANGED <<settings, src_dims, dims, img, result, call, ret>>

\* Mutant of RowTaskStep: last_fg and last_bg are one pair for all rows,
\* kept where row 0 keeps its own.
RowTaskStep_shared_last(y) ==
    /\ pc \in {"rows", "process_row"}
    /\ task[y].status = "running"
    /\ LET first == CHOOSE z \in DOMAIN task : \A o \in DOMAIN task : z <= o
           next == RowStep([task[y] EXCEPT !.last_fg = task[first].last_fg,
                                           !.last_bg = task[first].last_bg],
                           y, img, settings)
       IN  task' = [z \in DOMAIN task |->
                       IF z = y THEN next
                       ELSE IF z = first
                       THEN [task[z] EXCEPT !.last_fg = next.last_fg,
                                            !.last_bg = next.last_bg]
                       ELSE task[z]]
    /\ UNCHANGED <<pc, settings, src_dims, dims, img, rows, result, call, ret>>

\* One step of the process_row call of row y (lib.rs:163).
RowTaskStep(y) ==
    /\ pc \in {"rows", "process_row"}
    /\ task[y].status = "running"
    /\ task' = [task EXCEPT ![y] = RowStep(@, y, img, settings)]
    /\ UNCHANGED <<pc, settings, src_dims, dims, img, rows, result, call, ret>>

\* Mutant of StoreRow: the rows are collected as they complete.
StoreRow_as_completed(y) ==
    /\ pc = "rows"
    /\ task[y].status = "returned"
    /\ LET slot == CHOOSE i \in 1..Len(rows) :
                       rows[i] = << >> /\ \A j \in 1..(i - 1) : rows[j] # << >>
       IN  rows' = [rows EXCEPT ![slot] = task[y].row_str]
    /\ task' = [task EXCEPT ![y].status = "stored"]
    /\ UNCHANGED <<pc, settings, src_dims, dims, img, result, call, ret>>

\* lib.rs:163: *row_buf = the returned String.
StoreRow(y) ==
    /\ pc = "rows"
    /\ task[y].status = "returned"
    /\ rows' = [rows EXCEPT ![y + 1] = task[y].row_str]
    /\ task' = [task EXCEPT ![y].status = "stored"]
    /\ UNCHANGED <<pc, settings, src_dims, dims, img, result, call, ret>>

\* lib.rs:166, once for_each has returned.
Join ==
    /\ pc = "rows"
    /\ \A y \in DOMAIN task : task[y].status = "stored"
    /\ result' = Ok(join(rows, LF))
    /\ pc' = "returned"
    /\ UNCHANGED <<settings, src_dims, dims, img, rows, task, call, ret>>

Next ==
    \/ Validate
    \/ CalculateDimensions
    \/ Resize
    \/ ResizeFails
    \/ Quantize
    \/ QuantizeFails
    \/ SpawnRows
    \/ \E y \in DOMAIN task : RowTaskStep(y)
    \/ \E y \in DOMAIN task : StoreRow(y)
    \/ Join

Spec == Init /\ [][Next]_vars

(***************************************************************************)
(* Specification SpecRow: one direct call of the public process_row, on    *)
(* any settings and any buffer, fitting or not.                            *)
(***************************************************************************)
RowModes ==
    {Ascii("All"), Custom(<<"m", "[", ";">>), Custom(<<"x">>), Custom(<< >>),
     Unicode("Full"), Unicode("Half"), Unicode("Quarter"), Unicode("Shade")}

RowColors == {<<TRUE, << >>>>} \cup {<<FALSE, pal>> : pal \in Palettes}

\* A caller's list may hold any char, control characters included.
ControlChars == Custom(<<ESC, "[", "0", "m", "x">>)

RowSettings ==
    {MkSettings(Size(0, 0, "Exact"), m, cm, col[1], col[2], cp) :
        m \in RowModes, cm \in ColorModes, col \in RowColors, cp \in BOOLEAN}
    \cup {MkSettings(Size(0, 0, "Exact"), ControlChars, cm, FALSE,
                      <<BLACK_RGB, WHITE_RGB>>, cp) :
              cm \in ColorModes, cp \in BOOLEAN}

\* The widths of the buffers: up to MaxRowW blocks, and for the list with
\* control characters as many blocks as ESC[0m has characters.
RowWidths(s) ==
    IF s.characters.mode = ControlChars THEN {Len(FULL_RESET)} ELSE 0..MaxRowW

\* The buffer a conversion with settings s can hand to process_row.
RowBlocks(s) ==
    IF s.characters.mode = ControlChars THEN RampBlocks
    ELSE IF s.colors.is_truecolor THEN Blocks
    ELSE BlocksOver(Range(s.colors.palette))

\* <<y_char, width_char>> for a buffer of gw x 1 blocks: the fitting call,
\* and for the narrow buffers a call past the right edge and one past the
\* bottom edge.
RowCalls(gw) ==
    {<<0, gw>>} \cup (IF gw <= 1 THEN {<<0, gw + 1>>, <<1, gw>>} ELSE {})

InitRow ==
    /\ pc = "process_row"
    /\ settings \in RowSettings
    /\ \E gw \in RowWidths(settings) :
          /\ img \in ImagesOver(RowBlocks(settings), gw, 1)
          /\ \E c \in RowCalls(gw) :
                /\ call = [fn |-> "process_row", y_char |-> c[1], width_char |-> c[2]]
                /\ task = [y \in {c[1]} |-> RowStart(c[2])]
    /\ src_dims = <<0, 0>>
    /\ dims = <<0, 0>>
    /\ rows = << >>
    /\ result = Pending
    /\ ret = Pending

\* The call returns its String, or unwinds.
RowReturn ==
    /\ pc = "process_row"
    /\ task[call.y_char].status # "running"
    /\ ret' = IF task[call.y_char].status = "returned"
              THEN Ok(task[call.y_char].row_str) ELSE Panic
    /\ pc' = "returned"
    /\ UNCHANGED <<settings, src_dims, dims, img, rows, task, result, call>>

NextRow ==
    \/ RowTaskStep(call.y_char)
    \/ RowReturn

SpecRow == InitRow /\ [][NextRow]_vars

(***************************************************************************)
(* Reading a row's text back, as a terminal or an escape-stripping filter  *)
(* does: ESC [ digits-and-semicolons m is one escape sequence, any other   *)
(* character (a lone ESC included) is a glyph.                             *)
(***************************************************************************)
Tok(k, c, ch) == [k |-> k, c |-> c, ch |-> ch]

DigitValue(ch) ==
    CASE ch = "0" -> 0 [] ch = "1" -> 1 [] ch = "2" -> 2 [] ch = "3" -> 3
      [] ch = "4" -> 4 [] ch = "5" -> 5 [] ch = "6" -> 6 [] ch = "7" -> 7
      [] ch = "8" -> 8 [] ch = "9" -> 9 [] OTHER -> -1

\* The parameters of an escape sequence: numbers separated by ";", an empty
\* parameter reading as -1.
RECURSIVE Params(_, _, _, _)
Params(str, i, cur, acc) ==
    IF i > Len(str) THEN Append(acc, cur)
    ELSE IF str[i] = ";" THEN Params(str, i + 1, -1, Append(acc, cur))
    ELSE Params(str, i + 1,
                Min((IF cur < 0 THEN 0 ELSE cur * 10) + DigitValue(str[i]), 999), acc)

EscapeToken(params) ==
    LET p == Params(params, 1, -1, << >>)
    IN  IF Len(p) = 5 /\ p[1] = 38 /\ p[2] = 2 /\ \A i \in 3..5 : p[i] \in 0..255
        THEN Tok("fg", Some(<<p[3], p[4], p[5]>>), "")
        ELSE IF Len(p) = 5 /\ p[1] = 48 /\ p[2] = 2 /\ \A i \in 3..5 : p[i] \in 0..255
        THEN Tok("bg", Some(<<p[3], p[4], p[5]>>), "")
        ELSE IF p = <<39>> THEN Tok("fg", None, "")
        ELSE IF p = <<49>> THEN Tok("bg", None, "")
        ELSE IF p = <<0>> THEN Tok("reset", None, "")
        ELSE Tok("other", None, "")

\* The first position at or after i that holds neither a digit nor ";".
RECURSIVE ParamsEnd(_, _)
ParamsEnd(str, i) ==
    IF i > Len(str) THEN i
    ELSE IF DigitValue(str[i]) >= 0 \/ str[i] = ";" THEN ParamsEnd(str, i + 1)
    ELSE i

RECURSIVE TokensFrom(_, _, _)
TokensFrom(str, i, acc) ==
    IF i > Len(str) THEN acc
    ELSE IF str[i] = ESC /\ i + 1 <= Len(str) /\ str[i + 1] = "["
    THEN Let(ParamsEnd(str, i + 2), LAMBDA m :
             IF m <= Len(str) /\ str[m] = "m"
             THEN TokensFrom(str, m + 1,
                             Append(acc, EscapeToken(SubSeq(str, i + 2, m - 1))))
             ELSE TokensFrom(str, i + 1, Append(acc, Tok("glyph", None, str[i]))))
    ELSE TokensFrom(str, i + 1, Append(acc, Tok("glyph", None, str[i])))

Tokens(str) == TokensFrom(str, 1, << >>)

OfKind(toks, k) == SelectSeq(toks, LAMBDA t : t.k = k)

\* The text with its escape sequences stripped.
Glyphs(str) ==
    Let(OfKind(Tokens(str), "glyph"), LAMBDA ts : [i \in 1..Len(ts) |-> ts[i].ch])

\* What the text last set channel k ("fg" or "bg") to; None when it never did.
LastEmitted(str, k) ==
    Let(OfKind(Tokens(str), k), LAMBDA ts :
        IF ts = << >> THEN None ELSE ts[Len(ts)].c)

\* Where pat occurs in str.
Occurrences(str, pat) ==
    {i \in 1..(Len(str) - Len(pat) + 1) : SubSeq(str, i, i + Len(pat) - 1) = pat}

EndsWith(str, pat) ==
    Len(str) >= Len(pat) /\ SubSeq(str, Len(str) - Len(pat) + 1, Len(str)) = pat

\* The decision process_row takes for column x_char of row y_char.
BlockAt(image, x_char, y_char) ==
    <<pixel_to_luv(get_pixel(image, 2 * x_char, 2 * y_char)),
      pixel_to_luv(get_pixel(image, 2 * x_char + 1, 2 * y_char)),
      pixel_to_luv(get_pixel(image, 2 * x_char, 2 * y_char + 1)),
      pixel_to_luv(get_pixel(image, 2 * x_char + 1, 2 * y_char + 1))>>

DecisionAt(x_char, y_char) == decide(BlockAt(img, x_char, y_char), settings)

(***************************************************************************)
(* process_row: the claims about one row, checked under SpecRow.           *)
(***************************************************************************)
Compression == settings.advanced.compression

GlyphList == settings.characters.mode.chars

\* The text a step of row y appends.
Appended(y) ==
    SubSeq(task[y].row_str', Len(task[y].row_str) + 1, Len(task[y].row_str'))

ColumnStep(y) ==
    /\ task[y].status = "running"
    /\ task[y].status' = "running"
    /\ task[y].x_char' = task[y].x_char + 1

\* What a column writes for a channel whose decided colour is c: one escape
\* that sets the channel to c when c is not what the row last set it to,
\* nothing otherwise.
ChannelOnChange(y, k, c) ==
    OfKind(Tokens(Appended(y)), k) =
        IF c # LastEmitted(task[y].row_str, k) THEN <<Tok(k, c, "")>> ELSE << >>

ColumnOnChange(y) ==
    LET toks == Tokens(Appended(y))
        d == DecisionAt(task[y].x_char, y)
    IN  /\ ChannelOnChange(y, "fg", d.fg)
        /\ ChannelOnChange(y, "bg", d.bg)
        /\ Len(toks) = Len(OfKind(toks, "fg")) + Len(OfKind(toks, "bg")) + 1
        /\ toks[Len(toks)] = Tok("glyph", None, d.ch)

\* C2: with compression enabled, every column of a row writes, for each
\* channel separately, an escape before its glyph if and only if the column's
\* decided colour for the channel differs from the value the row last emitted
\* for it, which is None at the start of the row.
C2_EscapeIffChanged ==
    [][\A y \in DOMAIN task : Compression /\ ColumnStep(y) => ColumnOnChange(y)]_vars

\* Two adjacent blocks with the same decision: the escapes once, then the
\* second glyph alone.
C2_Witness ==
    /\ pc = "process_row"
    /\ Compression
    /\ settings.characters.color_mode = "TwoColor"
    /\ call.y_char = 0
    /\ img.width >= 4
    /\ task[0].x_char = 2
    /\ LET d == DecisionAt(0, 0)
       IN  /\ d = DecisionAt(1, 0)
           /\ task[0].row_str =
                 FgSet(Unwrap(d.fg)) \o BgSet(Unwrap(d.bg)) \o <<d.ch, d.ch>>

\* C4: with compression disabled, every column writes a foreground code and
\* a background code before its glyph, whatever the column before it wrote:
\* the returned row of W columns holds 2W channel escapes and the one reset.
C4_UncompressedWritesBoth ==
    \A y \in DOMAIN task :
        ~Compression =>
            LET rs == task[y]
                toks == Tokens(rs.row_str)
                done == rs.status \in {"returned", "stored"}
            IN  /\ Len(toks) = 3 * rs.x_char + (IF done THEN 1 ELSE 0)
                /\ \A i \in 0..(rs.x_char - 1) :
                      LET d == DecisionAt(i, y)
                      IN  /\ toks[3 * i + 1] = Tok("fg", d.fg, "")
                          /\ toks[3 * i + 2] = Tok("bg", d.bg, "")
                          /\ toks[3 * i + 3] = Tok("glyph", None, d.ch)
                /\ done =>
                      /\ rs.x_char = rs.width_char
                      /\ Len(OfKind(toks, "fg")) + Len(OfKind(toks, "bg"))
                            = 2 * rs.width_char
                      /\ Len(OfKind(toks, "reset")) = 1
                      /\ toks[Len(toks)].k = "reset"

\* An uncompressed row whose second column repeats the colours of the first.
C4_Witness ==
    /\ pc = "returned"
    /\ call.fn = "process_row"
    /\ ~Compression
    /\ ret.kind = "Ok"
    /\ call.width_char = 2
    /\ DecisionAt(0, 0) = DecisionAt(1, 0)
    /\ Len(OfKind(Tokens(ret.value), "fg")) = 2
    /\ Len(OfKind(Tokens(ret.value), "bg")) = 2

Finished(y) == task[y].status \in {"returned", "stored"}

\* As the claim C5 states it: the returned row ends with ESC[0m, and ESC[0m
\* occurs nowhere else in it.
C5_Original ==
    \A y \in DOMAIN task :
        Finished(y) =>
            /\ EndsWith(task[y].row_str, FULL_RESET)
            /\ Cardinality(Occurrences(task[y].row_str, FULL_RESET)) = 1

\* C5, amended: every returned row ends with ESC[0m, also a row of width 0;
\* ESC[0m occurs nowhere else in the row when the glyph list holds no ESC.
C5_EndsWithReset ==
    \A y \in DOMAIN task :
        Finished(y) =>
            /\ EndsWith(task[y].row_str, FULL_RESET)
            /\ task[y].width_char = 0 => task[y].row_str = FULL_RESET
            /\ ESC \notin Range(GlyphList) =>
                  Cardinality(Occurrences(task[y].row_str, FULL_RESET)) = 1

\* A returned row of glyphs that an escape sequence is made of.
C5_Witness ==
    /\ pc = "returned"
    /\ call.fn = "process_row"
    /\ ret.kind = "Ok"
    /\ call.width_char = 2
    /\ GlyphList = <<"m", "[", ";">>
    /\ Glyphs(ret.value) = <<"m", "[">>
    /\ EndsWith(ret.value, FULL_RESET)

FlipCompression(s) == [s EXCEPT !.advanced.compression = ~@]

\* The glyphs of row y are those of the same row rendered with the
\* compression flag flipped, and there are width_char of them.
SameGlyphs(y) ==
    LET other == process_row(y, task[y].width_char, img, FlipCompression(settings))
    IN  /\ other.status = "returned"
        /\ Glyphs(other.row_str) = Glyphs(task[y].row_str)
        /\ Len(Glyphs(task[y].row_str)) = task[y].width_char

\* As the claim C3 states it, for any settings.
C3_Original == \A y \in DOMAIN task : Finished(y) => SameGlyphs(y)

\* C3, amended: when the glyph list holds no ESC, the row with its escape
\* sequences stripped is the same sequence of glyphs with compression on and
\* off, and holds exactly width_char glyphs.
C3_SameGlyphs ==
    \A y \in DOMAIN task :
        Finished(y) /\ ESC \notin Range(GlyphList) => SameGlyphs(y)

\* A row that compression made shorter.
C3_Witness ==
    /\ pc = "returned"
    /\ call.fn = "process_row"
    /\ ret.kind = "Ok"
    /\ Compression
    /\ call.width_char = 2
    /\ Len(Glyphs(ret.value)) = 2
    /\ Len(ret.value) = Len(FULL_RESET) + 2
          + Len(FgSet(Unwrap(DecisionAt(0, 0).fg)))

(***************************************************************************)
(* Specification SpecPair: one call of find_closest_pair.                  *)
(***************************************************************************)
NoSettings ==
    MkSettings(Size(0, 0, "Exact"), Ascii("All"), "TwoColor", TRUE, << >>, TRUE)

PairColors == {SrgbToLuv(c) : c \in Colors}

RECURSIVE SeqsUpTo(_, _)
SeqsUpTo(S, n) ==
    IF n = 0 THEN {<< >>}
    ELSE LET shorter == SeqsUpTo(S, n - 1)
         IN  shorter \cup {Append(q, x) : q \in {r \in shorter : Len(r) = n - 1},
                                         x \in S}

PairPalettes == SeqsUpTo(PairColors, MaxPalette)

InitPair ==
    /\ pc = "find_closest_pair"
    /\ \E color1 \in PairColors, color2 \in PairColors, palette \in PairPalettes,
          order_by_brightness \in BOOLEAN :
          call = [fn |-> "find_closest_pair", color1 |-> color1, color2 |-> color2,
                  palette |-> palette, order_by_brightness |-> order_by_brightness]
    /\ settings = NoSettings
    /\ src_dims = <<0, 0>>
    /\ dims = <<0, 0>>
    /\ img = NoImage
    /\ rows = << >>
    /\ task = << >>
    /\ result = Pending
    /\ ret = Pending

\* The two palette colours the call resolves its inputs to, in the order of
\* the inputs, with the slots they were read from where the scans of
\* processing.rs:450-473 ran (-1 elsewhere).
Resolved(color1, color2, palette, order_by_brightness) ==
    IF Len(palette) = 0
    THEN [closest1 |-> BLACK_LUV, idx1 |-> -1, closest2 |-> BLACK_LUV, slot2 |-> -1]
    ELSE IF Len(palette) = 1
    THEN [closest1 |-> palette[1], idx1 |-> -1, closest2 |-> palette[1], slot2 |-> -1]
    ELSE IF ~order_by_brightness
    THEN [closest1 |-> find_closest(color1, palette), idx1 |-> -1,
          closest2 |-> find_closest(color2, palette), slot2 |-> -1]
    ELSE distinct_scan(color1, color2, palette)

CallFindClosestPair ==
    /\ pc = "find_closest_pair"
    /\ LET pair == find_closest_pair(call.color1, call.color2, call.palette,
                                     call.order_by_brightness)
       IN  ret' = Ok([fg |-> pair[1], bg |-> pair[2],
                      resolved |-> Resolved(call.color1, call.color2, call.palette,
                                            call.order_by_brightness)])
    /\ pc' = "returned"
    /\ UNCHANGED <<settings, src_dims, dims, img, rows, task, result, call>>

NextPair == CallFindClosestPair

SpecPair == InitPair /\ [][NextPair]_vars

PairReturned == pc = "returned" /\ call.fn = "find_closest_pair"

\* C8: called with the flag true and a palette of two or more entries,
\* find_closest_pair never takes both results from the same palette slot,
\* palettes with one colour at several positions included.
C8_DistinctSlots ==
    PairReturned /\ call.order_by_brightness /\ Len(call.palette) >= 2 =>
        LET r == ret.value.resolved
        IN  /\ r.idx1 \in 0..(Len(call.palette) - 1)
            /\ r.slot2 \in 0..(Len(call.palette) - 1)
            /\ r.slot2 # r.idx1
            /\ call.palette[r.idx1 + 1] = r.closest1
            /\ call.palette[r.slot2 + 1] = r.closest2
            /\ <<ret.value.fg, ret.value.bg>>
                  \in {<<r.closest1, r.closest2>>, <<r.closest2, r.closest1>>}

\* Both inputs nearest the colour the palette holds twice: the two results
\* are that colour, from its two slots.
C8_Witness ==
    /\ PairReturned
    /\ call.order_by_brightness
    /\ Len(call.palette) = 3
    /\ call.palette[1] = call.palette[2]
    /\ call.color1 = call.palette[1]
    /\ call.color2 = call.palette[1]
    /\ ret.value.fg = ret.value.bg
    /\ ret.value.resolved.idx1 = 0
    /\ ret.value.resolved.slot2 = 1

\* The background is the resolved colour nearer or as near to black, the
\* foreground the other one.
BackgroundNearerBlack ==
    LET r == ret.value.resolved
    IN  /\ luv_distance(ret.value.bg, BLACK_LUV) <= luv_distance(ret.value.fg, BLACK_LUV)
        /\ <<ret.value.fg, ret.value.bg>>
              \in {<<r.closest1, r.closest2>>, <<r.closest2, r.closest1>>}

\* As the claim C9 states it, for any call.
C9_Original == PairReturned => BackgroundNearerBlack

\* C9, amended: when find_closest_pair is called with the flag true, the
\* background it returns is the one of the two resolved palette colours whose
\* distance to black is smaller or equal, and the foreground is the other one,
\* whichever input produced which.
C9_BackgroundNearerBlack ==
    PairReturned /\ call.order_by_brightness => BackgroundNearerBlack

\* The first input resolved to the darker colour, which is returned second.
C9_Witness ==
    /\ PairReturned
    /\ call.order_by_brightness
    /\ Len(call.palette) >= 2
    /\ ret.value.resolved.closest1 # ret.value.resolved.closest2
    /\ ret.value.bg = ret.value.resolved.closest1
    /\ ret.value.fg = ret.value.resolved.closest2

(***************************************************************************)
(* Specification SpecIdx: one call of brightness_to_char_index.            *)
(***************************************************************************)
\* Brightness from -0.5 to 1.5 in steps of 0.05, in 1/BrightScale units.
Brightnesses == {(k * BrightScale) \div 20 : k \in -10..30}

RampLengths == (1..MaxRamp) \cup {Len(ASCII_CHARS_NUM), Len(ASCII_CHARS_ALL)}

InitIdx ==
    /\ pc = "brightness_to_char_index"
    /\ \E brightness \in Brightnesses, char_set_len \in RampLengths :
          call = [fn |-> "brightness_to_char_index", brightness |-> brightness,
                  char_set_len |-> char_set_len]
    /\ settings = NoSettings
    /\ src_dims = <<0, 0>>
    /\ dims = <<0, 0>>
    /\ img = NoImage
    /\ rows = << >>
    /\ task = << >>
    /\ result = Pending
    /\ ret = Pending

CallBrightnessToCharIndex ==
    /\ pc = "brightness_to_char_index"
    /\ ret' = Ok(brightness_to_char_index(call.brightness, call.char_set_len))
    /\ pc' = "returned"
    /\ UNCHANGED <<settings, src_dims, dims, img, rows, task, result, call>>

NextIdx == CallBrightnessToCharIndex

SpecIdx == InitIdx /\ [][NextIdx]_vars

IdxReturned == pc = "returned" /\ call.fn = "brightness_to_char_index"

\* C10: for a ramp of N >= 1 characters the index is within 0..N-1, is 0 for
\* brightness 0.0 and below, N-1 for brightness 1.0 and above, and no smaller
\* than the index of any lower brightness.
C10_MonotoneClamped ==
    IdxReturned =>
        LET N == call.char_set_len
        IN  /\ ret.value \in 0..(N - 1)
            /\ call.brightness <= 0 => ret.value = 0
            /\ call.brightness >= BrightScale => ret.value = N - 1
            /\ \A lower \in Brightnesses :
                  lower <= call.brightness =>
                      brightness_to_char_index(lower, N) <= ret.value

\* A brightness above 1.0 on a ramp of several characters: the last index,
\* above the index of brightness 0.5.
C10_Witness ==
    /\ IdxReturned
    /\ call.char_set_len = Len(ASCII_CHARS_NUM)
    /\ call.brightness > BrightScale
    /\ ret.value = call.char_set_len - 1
    /\ brightness_to_char_index(BrightScale \div 2, call.char_set_len) < ret.value
    /\ brightness_to_char_index(BrightScale \div 2, call.char_set_len) > 0

(***************************************************************************)
(* convert_image: the claims checked under Spec.                           *)
(***************************************************************************)
InvalidSettings ==
    \/ ~settings.colors.is_truecolor /\ settings.colors.palette = << >>
    \/ settings.characters.mode.kind = "Custom" /\ settings.characters.mode.chars = << >>

\* C1: when truecolor is off with an empty palette, or the mode is Custom
\* with an empty list, convert_image returns an InvalidSettings error from
\* its first step: no dimensions are calculated, no buffer is resized or
\* quantized, and no row task is started.
C1_InvalidSettingsFirst ==
    call.fn = "convert_image" /\ InvalidSettings =>
        /\ pc \in {"validate", "returned"}
        /\ pc = "returned" => result.kind = "InvalidSettings"
        /\ pc = "validate" => result = Pending
        /\ dims = <<0, 0>>
        /\ img = NoImage
        /\ rows = << >>
        /\ task = << >>

\* The call has returned the error for an empty Custom list.
C1_Witness ==
    /\ pc = "returned"
    /\ call.fn = "convert_image"
    /\ settings.colors.is_truecolor
    /\ settings.characters.mode = Custom(<< >>)
    /\ result.kind = "InvalidSettings"
    /\ task = << >>

\* The String process_row returns for row y of the conversion's buffer.
RowString(y) == process_row(y, dims[1], img, settings).row_str

RECURSIVE Offset(_)
Offset(y) == IF y = 0 THEN 0 ELSE Offset(y - 1) + Len(RowString(y - 1)) + 1

Converted == pc = "returned" /\ call.fn = "convert_image" /\ result.kind = "Ok"

\* C6: the text convert_image returns holds process_row(0), ...,
\* process_row(H-1) one after the other in this order, one newline between
\* two consecutive rows and nothing after the last row, in whatever order the
\* row tasks completed.
C6_RowsInOrder ==
    Converted =>
        LET H == dims[2]
            out == result.value
        IN  /\ Len(out) = IF H = 0 THEN 0 ELSE Offset(H) - 1
            /\ \A y \in 0..(H - 1) :
                  /\ SubSeq(out, Offset(y) + 1, Offset(y) + Len(RowString(y)))
                        = RowString(y)
                  /\ y < H - 1 => out[Offset(y + 1)] = LF
            /\ Cardinality({i \in 1..Len(out) : out[i] = LF}) = IF H = 0 THEN 0 ELSE H - 1

\* Two rows that differ, joined.
C6_Witness ==
    /\ Converted
    /\ dims = <<2, 2>>
    /\ RowString(0) # RowString(1)
    /\ result.value = RowString(0) \o <<LF>> \o RowString(1)

\* The state of the process_row call of row y after k steps on its own.
RECURSIVE RowAlone(_, _)
RowAlone(y, k) ==
    IF k = 0 THEN RowStart(dims[1])
    ELSE RowStep(RowAlone(y, k - 1), y, img, settings)

StepsTakenBy(rs) == rs.x_char + (IF rs.status = "running" THEN 0 ELSE 1)

\* Row y is where it would be had no other row run.
OnItsOwn(rs, y) ==
    [rs EXCEPT !.status = IF @ = "stored" THEN "returned" ELSE @]
        = RowAlone(y, StepsTakenBy(rs))

\* C7: for a fixed buffer and fixed settings the output is the same under
\* every interleaving of the row tasks: the tasks leave the buffer and the
\* settings alone, a step changes the state of one task only, a task is at
\* every moment where it would be had it run alone (its last_fg and last_bg
\* are its own), it writes its own slot only, and the text returned is the
\* one the rows give when each is computed alone.
C7_RowsIndependent ==
    [][/\ pc = "rows" => img' = img /\ settings' = settings /\ dims' = dims
       /\ pc' = "rows" =>
             \A y \in DOMAIN task' :
                 y \notin DOMAIN task \/ task'[y] # task[y] => OnItsOwn(task'[y], y)
       /\ pc = "rows" /\ pc' = "rows" =>
             /\ Cardinality({y \in DOMAIN task : task'[y] # task[y]}) <= 1
             /\ \A y \in DOMAIN task :
                   rows'[y + 1] # rows[y + 1] =>
                       /\ task[y].status = "returned"
                       /\ task'[y].status = "stored"
                       /\ rows'[y + 1] = task[y].row_str
       /\ pc' = "returned" /\ result'.kind = "Ok" =>
             result'.value = join([y \in 1..dims[2] |-> RowAlone(y - 1, dims[1] + 1).row_str],
                                  LF)]_vars

\* Row 1 is done and stored while row 0 is still in the middle of its
\* columns, its last colours set.
C7_Witness ==
    /\ pc = "rows"
    /\ DOMAIN task = {0, 1}
    /\ task[1].status = "stored"
    /\ task[0].status = "running"
    /\ task[0].x_char = 1
    /\ task[0].last_fg # task[1].last_fg
    /\ rows[1] = << >>
    /\ rows[2] = task[1].row_str

(***************************************************************************)
(* Specification SpecBlock: one call of process_ascii or process_unicode   *)
(* on one 2x2 block.                                                       *)
(***************************************************************************)
\* Every block of four pixels of Colors, as process_row hands it over.
BlockColors == {<<pixel_to_luv(b[1]), pixel_to_luv(b[2]), pixel_to_luv(b[3]),
                  pixel_to_luv(b[4])>> : b \in Colors \X Colors \X Colors \X Colors}

\* Option<&ColorPalette<LuvColor>>, as processing.rs:71-83 builds it.
BlockPalettes ==
    {None} \cup {Some([i \in 1..Len(pal) |-> SrgbToLuv(pal[i])]) : pal \in Palettes}

BlockCharSets ==
    {ASCII_CHARS_ALL, ASCII_CHARS_NUM, <<"x">>, <<"m", "[", ";">>}

UnicodeCharSets == {"Full", "Half", "Quarter", "Shade"}

InitBlock ==
    /\ pc = "process_block"
    /\ \E colors \in BlockColors, color_mode \in ColorModes, palette \in BlockPalettes :
          \/ \E char_set \in BlockCharSets :
                call = [fn |-> "process_ascii", colors |-> colors, chars |-> char_set,
                        color_mode |-> color_mode, palette |-> palette]
          \/ \E charset \in UnicodeCharSets :
                call = [fn |-> "process_unicode", colors |-> colors, chars |-> charset,
                        color_mode |-> color_mode, palette |-> palette]
    /\ settings = NoSettings
    /\ src_dims = <<0, 0>>
    /\ dims = <<0, 0>>
    /\ img = NoImage
    /\ rows = << >>
    /\ task = << >>
    /\ result = Pending
    /\ ret = Pending

Returned(d) == IF d.ok THEN Ok(d) ELSE Panic

CallProcessAscii ==
    /\ pc = "process_block"
    /\ call.fn = "process_ascii"
    /\ ret' = Returned(process_ascii(call.colors, call.chars, call.color_mode,
                                     call.palette))
    /\ pc' = "returned"
    /\ UNCHANGED <<settings, src_dims, dims, img, rows, task, result, call>>

CallProcessUnicode ==
    /\ pc = "process_block"
    /\ call.fn = "process_unicode"
    /\ ret' = Returned(process_unicode(call.colors, call.chars, call.color_mode,
                                       call.palette))
    /\ pc' = "returned"
    /\ UNCHANGED <<settings, src_dims, dims, img, rows, task, result, call>>

NextBlock ==
    \/ CallProcessAscii
    \/ CallProcessUnicode

SpecBlock == InitBlock /\ [][NextBlock]_vars

AsciiReturned == pc = "returned" /\ call.fn = "process_ascii" /\ ret.kind = "Ok"

UnicodeReturned == pc = "returned" /\ call.fn = "process_unicode" /\ ret.kind = "Ok"

\* The place of character ch in a ramp of distinct characters.
PositionIn(ramp, ch) == CHOOSE i \in 1..Len(ramp) : ramp[i] = ch

OneColorAll ==
    /\ AsciiReturned
    /\ call.chars = ASCII_CHARS_ALL
    /\ call.color_mode = "OneColor"
    /\ call.palette = None

\* C11: in ASCII mode with the All ramp, OneColor and truecolor, a block
\* whose average is pure white gets the last character of the ramp,
\* foreground (255,255,255) and no background; and a block whose rendered
\* colour is at least as light as another block's gets a ramp index at least
\* as high.
C11_WhiteIsBrightest ==
    OneColorAll =>
        /\ average_color(call.colors) = SrgbToLuv(WHITE_RGB) =>
              /\ ret.value.ch = ASCII_CHARS_ALL[Len(ASCII_CHARS_ALL)]
              /\ ret.value.fg = Some(WHITE_RGB)
              /\ ret.value.bg = None
        /\ \A darker \in BlockColors :
              average_color(darker).l <= average_color(call.colors).l =>
                  PositionIn(ASCII_CHARS_ALL,
                             process_ascii(darker, call.chars, call.color_mode,
                                           call.palette).ch)
                      <= PositionIn(ASCII_CHARS_ALL, ret.value.ch)

AllBlack == <<BLACK_LUV, BLACK_LUV, BLACK_LUV, BLACK_LUV>>

QuarterCatalog ==
    <<UPPER_HALF, RIGHT_HALF, DIAGONAL, LOWER_LEFT, UPPER_LEFT, UPPER_RIGHT,
      LOWER_RIGHT>>

AllBlackQuarter ==
    /\ UnicodeReturned
    /\ call.chars = "Quarter"
    /\ call.color_mode = "TwoColor"
    /\ call.palette = None
    /\ call.colors = AllBlack

\* C12: for an all-black block in Quarter mode with TwoColor and truecolor,
\* the seven Quarter templates all score zero, and process_unicode returns
\* the one the tie rule picks, the first of the catalog, with foreground and
\* background (0,0,0).
C12_AllBlackQuarter ==
    AllBlackQuarter =>
        LET cands == candidates(call.colors, call.chars)
        IN  /\ [i \in 1..Len(cands) |-> cands[i].ch] = QuarterCatalog
            /\ \A i \in 1..Len(cands) :
                  calculate_block_distance(call.colors, cands[i].fg, cands[i].bg,
                                           cands[i].ch) = 0
            /\ ret.value.ch = QuarterCatalog[1]
            /\ ret.value.fg = Some(BLACK_RGB)
            /\ ret.value.bg = Some(BLACK_RGB)

C12_Witness == AllBlackQuarter /\ ret.value.ch = UPPER_HALF

\* The error of showing glyph ch in colours fg and bg for the block: the sum
\* over the four places of the squared distance between the pixel and the
\* colour the glyph shows there.
SquaredDistance(a, b) ==
    LET d == luv_distance(a, b) IN d * d

BlockError(colors, fg, bg, ch) ==
    LET t == template(fg, bg, ch)
    IN  SquaredDistance(colors[1], t[1]) + SquaredDistance(colors[2], t[2])
            + SquaredDistance(colors[3], t[3]) + SquaredDistance(colors[4], t[4])

\* The candidates of a call, each in the colours it is scored in.
Scored(c) ==
    LET cands == candidates(c.colors, c.chars)
    IN  Seq1([i \in 1..Len(cands) |-> score(c.colors, cands[i], c.palette)])

Errors(c, scored) ==
    Seq1([i \in 1..Len(scored) |->
             BlockError(c.colors, scored[i].fg, scored[i].bg, scored[i].ch)])

\* The first candidate of the catalog among those of least error.
FirstBest(errors) ==
    CHOOSE k \in 1..Len(errors) :
        /\ \A j \in 1..Len(errors) : errors[k] <= errors[j]
        /\ \A j \in 1..(k - 1) : errors[j] > errors[k]

Best(c) ==
    Let(Scored(c), LAMBDA scored :
        Let(Errors(c, scored), LAMBDA errors : scored[FirstBest(errors)]))

Scoring == UnicodeReturned /\ call.chars \in {"Half", "Quarter", "Shade"}

\* C15: in the Half, Quarter and Shade modes process_unicode returns the
\* candidate whose reconstruction has the least summed squared distance to
\* the four colours of the block, and of several such candidates the one
\* the catalog lists first.
C15_MinErrorFirstWins ==
    Scoring =>
        Let(Best(call), LAMBDA best :
            /\ ret.value.ch = best.ch
            /\ ret.value.fg = Some(luv_to_rgb(best.fg))
            /\ IsSome(ret.value.bg) => ret.value.bg = Some(luv_to_rgb(best.bg)))

\* The blank of the Shade catalog, first of four candidates of error zero.
C15_Witness ==
    /\ Scoring
    /\ call.chars = "Shade"
    /\ call.colors = AllBlack
    /\ Errors(call, Scored(call)) = <<0, 0, 0, 0>>
    /\ ret.value.ch = SPACE

\* The call names a block with a pixel outside the buffer.
ReachesPastBuffer ==
    \E x_char \in 0..(call.width_char - 1) :
        ~InBounds(img, x_char * 2 + 1, call.y_char * 2 + 1)

\* C13: a process_row call whose y_char and width_char reach past the pixel
\* buffer does not abort by panic and renders nothing: it surfaces the
\* failure as a Processing error.
C13_PastBufferIsProcessingError ==
    ReachesPastBuffer =>
        /\ task[call.y_char].status # "panicked"
        /\ pc = "returned" => ret.kind = "Processing"

\* The settings pass the validation of convert_image and the call fits the
\* buffer, as each call convert_image makes does.
ValidatedFittingCall ==
    /\ validate(settings) = ""
    /\ img.width = 2 * call.width_char
    /\ call.y_char * 2 + 2 <= img.height

\* C14: for settings that pass validation and a buffer of exactly 2W x 2H
\* pixels a process_row call completes: the four pixel reads of every block
\* are in bounds, the index into the character set is below its length (a
\* set of one character included), no step panics, the call returns its
\* String, and the average of an empty slice of colours is black.  Each
\* column is examined in the state its iteration starts from.
C14_RowCompletes ==
    ValidatedFittingCall =>
        /\ \A x_char \in {task[call.y_char].x_char} \cap 0..(call.width_char - 1) :
              /\ \A dx, dy \in 0..1 :
                    InBounds(img, x_char * 2 + dx, call.y_char * 2 + dy)
              /\ Let(DecisionAt(x_char, call.y_char), LAMBDA d :
                     /\ d.ok
                     /\ settings.characters.mode.kind # "Unicode" =>
                           \E i \in 1..Len(settings.characters.mode.chars) :
                               d.ch = settings.characters.mode.chars[i])
        /\ task[call.y_char].status # "panicked"
        /\ pc = "returned" => ret.kind = "Ok"
        /\ average_color(<< >>) = BLACK_LUV

\* A row over a set of one character has returned with both its columns.
C14_Witness ==
    /\ ValidatedFittingCall
    /\ settings.characters.mode = Custom(<<"x">>)
    /\ call.width_char = MaxRowW
    /\ pc = "returned"
    /\ ret.kind = "Ok"

(***************************************************************************)
(* Specification SpecClosest: one call of find_closest.                    *)
(***************************************************************************)
\* The colours looked up: those of the palettes, and the average of a block
\* half black and half white, as far from black as from white.
ClosestColors ==
    PairColors
        \cup {average_color(<<BLACK_LUV, BLACK_LUV, SrgbToLuv(WHITE_RGB),
                              SrgbToLuv(WHITE_RGB)>>)}

InitClosest ==
    /\ pc = "find_closest"
    /\ \E color \in ClosestColors, palette \in PairPalettes :
          call = [fn |-> "find_closest", color |-> color, palette |-> palette]
    /\ settings = NoSettings
    /\ src_dims = <<0, 0>>
    /\ dims = <<0, 0>>
    /\ img = NoImage
    /\ rows = << >>
    /\ task = << >>
    /\ result = Pending
    /\ ret = Pending

CallFindClosest ==
    /\ pc = "find_closest"
    /\ ret' = Ok(find_closest(call.color, call.palette))
    /\ pc' = "returned"
    /\ UNCHANGED <<settings, src_dims, dims, img, rows, task, result, call>>

NextClosest == CallFindClosest

SpecClosest == InitClosest /\ [][NextClosest]_vars

ClosestReturned == pc = "returned" /\ call.fn = "find_closest"

\* C16: find_closest returns the palette entry of least distance to the
\* colour, and of several entries at that distance the one that comes
\* first in the palette.
C16_NearestFirstWins ==
    ClosestReturned /\ Len(call.palette) > 0 =>
        \E k \in 1..Len(call.palette) :
            /\ ret.value = call.palette[k]
            /\ \A j \in 1..Len(call.palette) :
                  luv_distance(call.color, call.palette[k])
                      <= luv_distance(call.color, call.palette[j])
            /\ \A j \in 1..(k - 1) :
                  luv_distance(call.color, call.palette[j])
                      > luv_distance(call.color, call.palette[k])

\* White before black in the palette, the colour as far from one as from
\* the other: white is returned.
C16_Witness ==
    /\ ClosestReturned
    /\ Len(call.palette) >= 2
    /\ call.palette[1] = SrgbToLuv(WHITE_RGB)
    /\ call.palette[2] = BLACK_LUV
    /\ luv_distance(call.color, call.palette[1])
           = luv_distance(call.color, call.palette[2])
    /\ ret.value = SrgbToLuv(WHITE_RGB)

\* The decimal numeral of n.
RECURSIVE Decimal(_)
Decimal(n) ==
    IF n < 10 THEN <<Digit(n)>> ELSE Decimal(n \div 10) \o <<Digit(n % 10)>>

\* The escape for a decided colour: ESC[38;2;r;g;bm or ESC[48;2;r;g;bm for a
\* present foreground or background, ESC[39m or ESC[49m for an absent one.
EscapeFor(selector, colour) ==
    IF IsSome(colour)
    THEN <<ESC, "[", selector, "8", ";", "2", ";">> \o Decimal(colour[1][1])
             \o <<";">> \o Decimal(colour[1][2]) \o <<";">>
             \o Decimal(colour[1][3]) \o <<"m">>
    ELSE <<ESC, "[", selector, "9", "m">>

\* C17: what a column appends is determined by its decision: the escape of
\* the foreground if one is written (ESC[38;2;r;g;bm when present, ESC[39m
\* when absent), then the escape of the background if one is written
\* (ESC[48;2;r;g;bm when present, ESC[49m when absent), then the glyph, which
\* always comes after the column's escapes.
C17_EscapeForms ==
    [][\A y \in DOMAIN task :
          ColumnStep(y) =>
              LET d == DecisionAt(task[y].x_char, y)
              IN  \E fg_written, bg_written \in BOOLEAN :
                      Appended(y) =
                          (IF fg_written THEN EscapeFor("3", d.fg) ELSE << >>)
                              \o (IF bg_written THEN EscapeFor("4", d.bg) ELSE << >>)
                              \o <<d.ch>>]_vars

\* A white block in OneColor: the foreground set to white, the background
\* reset, then the glyph.
C17_Witness ==
    /\ pc = "process_row"
    /\ settings.characters.mode = Unicode("Full")
    /\ settings.characters.color_mode = "OneColor"
    /\ call.y_char = 0
    /\ task[0].x_char = 1
    /\ task[0].row_str =
          <<ESC, "[", "3", "8", ";", "2", ";", "2", "5", "5", ";", "2", "5", "5",
            ";", "2", "5", "5", "m", ESC, "[", "4", "9", "m", FULL_BLOCK>>

FullReturned == UnicodeReturned /\ call.chars = "Full"

\* C18: for the Full set process_unicode scores nothing: in both colour
\* modes the decision is the solid block, its foreground the average of the
\* block, replaced by the nearest palette entry when a palette is in use,
\* and no background.
C18_FullBlock ==
    FullReturned =>
        LET avg == average_color(call.colors)
            shown == IF call.palette = None THEN avg
                     ELSE find_closest(avg, call.palette[1])
        IN  /\ ret.value.ch = FULL_BLOCK
            /\ ret.value.fg = Some(luv_to_rgb(shown))
            /\ ret.value.bg = None

\* TwoColor with a palette that does not hold the block's average.
C18_Witness ==
    /\ FullReturned
    /\ call.color_mode = "TwoColor"
    /\ call.palette # None
    /\ ret.value.ch = FULL_BLOCK
    /\ ret.value.fg # Some(luv_to_rgb(average_color(call.colors)))
    /\ ret.value.bg = None

\* C19: the decisions of the ASCII sets, of Custom lists and of the Unicode
\* sets Half, Quarter and Shade always have a foreground, and have a
\* background exactly in TwoColor.
C19_BackgroundIffTwoColor ==
    AsciiReturned \/ Scoring =>
        /\ IsSome(ret.value.fg)
        /\ IsSome(ret.value.bg) <=> call.color_mode = "TwoColor"

\* A OneColor decision over a Custom list.
C19_Witness ==
    /\ AsciiReturned
    /\ call.chars = <<"m", "[", ";">>
    /\ call.color_mode = "OneColor"
    /\ IsSome(ret.value.fg)
    /\ ret.value.bg = None

\* The first colour of greatest, and of least, lightness.
FirstLightest(colors) ==
    colors[CHOOSE i \in 1..Len(colors) :
               /\ \A j \in 1..Len(colors) : colors[i].l >= colors[j].l
               /\ \A j \in 1..(i - 1) : colors[j].l < colors[i].l]

FirstDarkest(colors) ==
    colors[CHOOSE i \in 1..Len(colors) :
               /\ \A j \in 1..Len(colors) : colors[i].l <= colors[j].l
               /\ \A j \in 1..(i - 1) : colors[j].l > colors[i].l]

AsciiTwoColor == AsciiReturned /\ call.color_mode = "TwoColor"

\* C20: in ASCII TwoColor a block whose lightest and darkest pixels are
\* closer than the epsilon has brightness 0 and takes the first character of
\* the set; any other block has brightness
\* dist(average, darkest) / dist(lightest, darkest), capped at 1, and takes
\* the character at round(brightness * (len - 1)).
C20_TwoColorBrightness ==
    AsciiTwoColor =>
        LET darkest == FirstDarkest(call.colors)
            total_dist == luv_distance(FirstLightest(call.colors), darkest)
            avg_dist == luv_distance(average_color(call.colors), darkest)
            ratio == RoundDiv(avg_dist * BrightScale, total_dist)
            capped == IF ratio > BrightScale THEN BrightScale ELSE ratio
        IN  ret.value.ch =
                IF total_dist = 0 THEN call.chars[1]
                ELSE call.chars[RoundDiv(capped * (Len(call.chars) - 1),
                                         BrightScale) + 1]

\* A block that is not flat, its average nearer the darkest pixel than the
\* lightest: a character inside the 92-character ramp.
C20_Witness ==
    /\ AsciiTwoColor
    /\ call.chars = ASCII_CHARS_ALL
    /\ FirstLightest(call.colors) # FirstDarkest(call.colors)
    /\ ret.value.ch # ASCII_CHARS_ALL[1]
    /\ ret.value.ch # ASCII_CHARS_ALL[Len(ASCII_CHARS_ALL)]
    /\ 2 * luv_distance(average_color(call.colors), FirstDarkest(call.colors))
           < luv_distance(FirstLightest(call.colors), FirstDarkest(call.colors))

(***************************************************************************)
(* A row as a terminal shows it.                                           *)
(***************************************************************************)
\* The terminal reads the tokens from the default style, both colours unset:
\* a colour escape sets its channel, ESC[39m and ESC[49m unset it, ESC[0m
\* unsets both, and a glyph is printed in the colours then in force.
RECURSIVE TerminalFrom(_, _, _, _, _)
TerminalFrom(toks, i, fg, bg, printed) ==
    IF i > Len(toks) THEN printed
    ELSE LET t == toks[i]
         IN  CASE t.k = "fg" -> TerminalFrom(toks, i + 1, t.c, bg, printed)
               [] t.k = "bg" -> TerminalFrom(toks, i + 1, fg, t.c, printed)
               [] t.k = "reset" -> TerminalFrom(toks, i + 1, None, None, printed)
               [] t.k = "glyph" ->
                    TerminalFrom(toks, i + 1, fg, bg,
                                 Append(printed, [ch |-> t.ch, fg |-> fg, bg |-> bg]))
               [] OTHER -> TerminalFrom(toks, i + 1, fg, bg, printed)

\* The glyphs of the text, each with the colours in force when it is printed.
Printed(str) ==
    Let(Tokens(str), LAMBDA toks : TerminalFrom(toks, 1, None, None, << >>))

\* The decisions of the first n columns of row y, as printed glyphs.
Decided(y, n) ==
    [i \in 1..n |->
        Let(DecisionAt(i - 1, y), LAMBDA d : [ch |-> d.ch, fg |-> d.fg, bg |-> d.bg])]

\* What the terminal shows of the finished row y is, glyph by glyph, the
\* decisions of its columns, and so it is for the same row rendered with the
\* compression flag flipped.
ShownAsDecided(y) ==
    Let(Decided(y, task[y].x_char), LAMBDA decided :
        /\ Printed(task[y].row_str) = decided
        /\ Printed(process_row(y, task[y].width_char, img,
                                FlipCompression(settings)).row_str) = decided)

\* As the claim C21 states it, for any settings.
C21_Original == \A y \in DOMAIN task : Finished(y) => ShownAsDecided(y)

\* C21, amended: when the glyph list holds no ESC, the foreground and
\* background in force on a terminal when each glyph of a row is printed,
\* read from the default style, are those of the column's decision, an
\* absent colour being the terminal's default, with compression on as with
\* compression off.
C21_ShownAsDecided ==
    \A y \in DOMAIN task :
        Finished(y) /\ ESC \notin Range(GlyphList) => ShownAsDecided(y)

\* A compressed row of two columns that keeps its foreground and changes
\* its background: the second column writes the background alone.
C21_Witness ==
    /\ pc = "returned"
    /\ call.fn = "process_row"
    /\ ret.kind = "Ok"
    /\ Compression
    /\ ESC \notin Range(GlyphList)
    /\ call.width_char = 2
    /\ DecisionAt(0, 0).fg = DecisionAt(1, 0).fg
    /\ DecisionAt(0, 0).bg # DecisionAt(1, 0).bg
    /\ Len(OfKind(Tokens(ret.value), "fg")) = 1
    /\ Len(OfKind(Tokens(ret.value), "bg")) = 2
    /\ Printed(ret.value)[2].fg = DecisionAt(1, 0).fg

\* The call is made with the palette pal of the settings, converted as
\* process_row converts it.
PaletteInUse(pal) ==
    /\ pc = "returned"
    /\ call.fn \in {"process_ascii", "process_unicode"}
    /\ ret.kind = "Ok"
    /\ call.palette = Some([i \in 1..Len(pal) |-> SrgbToLuv(pal[i])])

\* C22: when a palette is in use, the foreground and the background of every
\* decision, in every glyph mode and colour mode, are absent or the colour of
\* an entry of the configured palette: no average, blend or black
\* placeholder from outside the palette is emitted.
C22_ColoursFromPalette ==
    \A pal \in Palettes :
        PaletteInUse(pal) =>
            /\ ret.value.fg = None \/ ret.value.fg[1] \in Range(pal)
            /\ ret.value.bg = None \/ ret.value.bg[1] \in Range(pal)

\* A black block scored against a palette of white alone: the blank of the
\* Shade set, whose ideal colours are black, is shown white on white.
C22_Witness ==
    /\ PaletteInUse(<<WHITE_RGB>>)
    /\ call.fn = "process_unicode"
    /\ call.chars = "Shade"
    /\ call.color_mode = "TwoColor"
    /\ call.colors = AllBlack
    /\ ret.value.fg = Some(WHITE_RGB)
    /\ ret.value.bg = Some(WHITE_RGB)

====
